---- MODULE Spec2Model ----
(***************************************************************************)
(* Model of nova/virt/disk/mount/api.py: class Mount, one mount session.   *)
(*                                                                         *)
(* Python strings (device paths, partition suffixes) are sequences of      *)
(* one-character strings, so that os.path.basename, str.rsplit,            *)
(* os.path.join and the '%s' formats are computed, not assumed.            *)
(* None (for a path) is the empty sequence: the code only tests paths with *)
(* `not self.device`, which treats None and '' alike, and os.path.exists   *)
(* raises TypeError on it.                                                 *)
(*                                                                         *)
(* A second, separate part models the server-group API that                *)
(* tests/unit/api/openstack/compute/test_server_group_quotas.py drives     *)
(* (QuotaSpec, QuotaRaceSpec); the mount session is at rest there, and the *)
(* API is at rest in Spec.                                                 *)
(***************************************************************************)
EXTENDS Integers, Sequences, FiniteSets, TLC

VARIABLES
    mode,           \* class attribute `mode`: "None" (base class Mount) or "loop"
    partition,      \* self.partition
    error,          \* self.error : sequence of text pieces, <<>> is ''
    linked,         \* self.linked
    mapped,         \* self.mapped
    mounted,        \* self.mounted
    automapped,     \* self.automapped
    device,         \* self.device
    mapped_device,  \* self.mapped_device
    nodes,          \* the paths for which os.path.exists is true
    mtab,           \* the devices mounted on mount_dir, oldest first
    attached,       \* raw devices attached by the backend and not yet detached
    created,        \* /dev/mapper nodes made by this session's kpartx -a, still there
    pc,             \* the statement the caller's thread is at
    call,           \* the public method being run: "do_mount", "do_umount", a
                    \* stage method or "reset_dev"; "none" between the calls
    status,         \* do_mount's local `status`
    exc,            \* the exception propagating, "" when none
    cmds,           \* the external commands issued by the current call, and its
                    \* release of the raw device, in order
    obs,            \* what the stages of the current call saw and answered
    pre,            \* the fields and the resources held when the current call began
    last,           \* what happened last between calls: a call and how it
                    \* ended, or "env" (a device node changed)
    ctor,           \* the constructor's arguments and what existed then
    autodet,        \* the mapping in force was found auto-mapped by map_dev
    direct,         \* the caller has called a stage method or reset_dev itself
    mntdev,         \* the device the last successful mount command was given;
                    \* until there is one, the device the constructor was given
    ncalls,         \* number of public calls made
    nenv,           \* number of changes made to /dev by others
    \* the server-group API that test_server_group_quotas.py drives
    server_groups,  \* CONF.quota.server_groups, or the registered limit
    recheck_quota,  \* CONF.quota.recheck_quota
    in_use,         \* the server groups of the project and user that exist
    qpc,            \* the statement the request's thread is at
    qreq,           \* the request being served: "create", "delete", "none"
    checks,         \* the quota checks the request has made: delta and outcome
    qout,           \* the response being given: "ok", "HTTPForbidden", "none"
    qpre,           \* in_use when the request began
    qlast           \* the request answered before this one, and its response

vars == <<mode, partition, error, linked, mapped, mounted, automapped, device,
          mapped_device, nodes, mtab, attached, created, pc, call, status, exc,
          cmds, obs, pre, last, ctor, autodet, direct, mntdev, ncalls, nenv,
          server_groups, recheck_quota, in_use, qpc, qreq, checks, qout, qpre,
          qlast>>

mountvars == <<mode, partition, error, linked, mapped, mounted, automapped,
               device, mapped_device, nodes, mtab, attached, created, pc, call,
               status, exc, cmds, obs, pre, last, ctor, autodet, direct, mntdev,
               ncalls, nenv>>
quotavars == <<server_groups, recheck_quota, in_use, qpc, qreq, checks, qout,
               qpre, qlast>>

session == <<partition, error, linked, mapped, mounted, automapped, device,
             mapped_device>>
kernel == <<nodes, mtab, attached, created>>

-----------------------------------------------------------------------------
\* Bounds of the model
MaxCalls == 2    \* public calls per behaviour
MaxEnv == 2      \* changes of /dev nodes by others per behaviour
MaxPart == 2     \* partitions an image may hold
MaxLimit == 3    \* the largest server-group limit configured

Partitions == 1..MaxPart

-----------------------------------------------------------------------------
\* Python values

None == <<>>

PNone == [t |-> "none", i |-> 0, s |-> <<>>]
PInt(n) == [t |-> "int", i |-> n, s |-> <<>>]
PStr(str) == [t |-> "str", i |-> 0, s |-> str]

\* bool(self.partition): None, 0 and '' are false
Truthy(p) ==
    CASE p.t = "none" -> FALSE
      [] p.t = "int" -> p.i # 0
      [] OTHER -> p.s # <<>>

DigitChars == <<"0", "1", "2", "3", "4", "5", "6", "7", "8", "9">>

RECURSIVE Digits(_)
Digits(n) ==
    IF n < 10 THEN <<DigitChars[n + 1]>>
    ELSE Digits(n \div 10) \o <<DigitChars[(n % 10) + 1]>>

\* '%s' % value
Str(p) ==
    CASE p.t = "none" -> <<"N", "o", "n", "e">>
      [] p.t = "int" -> IF p.i < 0 THEN <<"-">> \o Digits(-p.i) ELSE Digits(p.i)
      [] OTHER -> p.s

\* index of the last occurrence of c in s, 0 when there is none
LastIndex(s, c) ==
    LET hits == {i \in 1..Len(s) : s[i] = c}
    IN IF hits = {} THEN 0 ELSE CHOOSE i \in hits : \A j \in hits : j <= i

\* index of the first occurrence of c in s, 0 when there is none
FirstIndex(s, c) ==
    LET hits == {i \in 1..Len(s) : s[i] = c}
    IN IF hits = {} THEN 0 ELSE CHOOSE i \in hits : \A j \in hits : i <= j

isabs(p) == Len(p) > 0 /\ p[1] = "/"

basename(p) == SubSeq(p, LastIndex(p, "/") + 1, Len(p))

startswith(p, prefix) ==
    Len(p) >= Len(prefix) /\ SubSeq(p, 1, Len(prefix)) = prefix

\* s.split('p', 1): cuts at the first 'p', where rsplit cuts at the last
split1(s, c) ==
    LET i == FirstIndex(s, c)
    IN IF i = 0 THEN <<s>> ELSE <<SubSeq(s, 1, i - 1), SubSeq(s, i + 1, Len(s))>>

\* s.rsplit(c, 1)
rsplit1(s, c) ==
    LET i == LastIndex(s, c)
    IN IF i = 0 THEN <<s>> ELSE <<SubSeq(s, 1, i - 1), SubSeq(s, i + 1, Len(s))>>

\* os.path.join(a, b)
join(a, b) ==
    IF isabs(b) THEN b
    ELSE IF a = <<>> \/ a[Len(a)] = "/" THEN a \o b
    ELSE a \o <<"/">> \o b

exists(p) == p \in nodes

DEV == <<"/", "d", "e", "v">>
DEVSLASH == <<"/", "d", "e", "v", "/">>
DEVMAPPER == <<"/", "d", "e", "v", "/", "m", "a", "p", "p", "e", "r", "/">>

LOOP0 == DEVSLASH \o <<"l", "o", "o", "p", "0">>
LOOP1 == DEVSLASH \o <<"l", "o", "o", "p", "1">>
RawDevs == {LOOP0, LOOP1}

\* '/dev/%sp%s' % (os.path.basename(self.device), self.partition)
AutomappedPath(dev, p) == DEVSLASH \o basename(dev) \o <<"p">> \o Str(p)

\* '/dev/mapper/%sp%s' % (os.path.basename(self.device), self.partition)
MapPath(dev, p) == DEVMAPPER \o basename(dev) \o <<"p">> \o Str(p)

\* The /dev/mapper nodes of a device's partitions, which `kpartx -d dev` removes
MapperNodesOf(dev) == {MapPath(dev, PInt(k)) : k \in Partitions}

\* the partition nodes that others make and remove between calls
EnvNodes == {AutomappedPath(LOOP0, PInt(k)) : k \in Partitions} \cup MapperNodesOf(LOOP0)
\* the /dev/mapper nodes of the partitions of the raw devices
MapperNodes == {MapPath(r, PInt(k)) : r \in RawDevs, k \in Partitions}


-----------------------------------------------------------------------------
\* Text the external tools may print on stderr ("" is no text)
KpartxErrs == {"", "kpartx: read error"}
MountErrs == {"", "wrong fs type"}
AttachErrs == {"no free loop device"}

\* Constructor arguments
PartitionArgs == {PNone, PInt(-1)} \cup {PInt(k) : k \in Partitions}
DeviceArgs == {None, LOOP0, MapPath(LOOP0, PInt(1)), MapPath(LOOP1, PInt(2))}

Fields ==
    [linked |-> linked, mapped |-> mapped, mounted |-> mounted,
     automapped |-> automapped, device |-> device,
     mapped_device |-> mapped_device, partition |-> partition, error |-> error]

Held == [attached |-> attached, created |-> created, binds |-> Len(mtab)]

PreNone == [fields |-> <<>>, held |-> <<>>, any |-> FALSE]
PreNow == [fields |-> <<Fields>>, held |-> <<Held>>, any |-> TRUE]

ObsNone ==
    [get |-> "none", map |-> "none", mapret |-> "none", autoEx |-> FALSE,
     nodeEx |-> FALSE, kerr |-> "", mnt |-> "none", mnterr |-> ""]

Range(s) == {s[i] : i \in 1..Len(s)}

\* s without its last occurrence of x
RemoveLast(s, x) ==
    LET i == LastIndex(s, x)
    IN IF i = 0 THEN s ELSE SubSeq(s, 1, i - 1) \o SubSeq(s, i + 1, Len(s))

-----------------------------------------------------------------------------
\* Mount.reset_dev, on the fields __init__ has just set: the fields it leaves,
\* or raised = TRUE when the unpacking of rsplit's result raises ValueError
reset_dev(dev, part, ex) ==
    IF dev = None
    THEN [linked |-> FALSE, mapped |-> FALSE, mounted |-> FALSE,
          device |-> dev, partition |-> part, raised |-> FALSE]
    ELSE IF isabs(dev) /\ dev \in ex /\ startswith(dev, DEVMAPPER)
    THEN LET parts == rsplit1(basename(dev), "p")
         IN IF Len(parts) = 2
            THEN [linked |-> TRUE, mapped |-> TRUE, mounted |-> TRUE,
                  device |-> join(DEV, parts[1]), partition |-> PStr(parts[2]),
                  raised |-> FALSE]
            ELSE [linked |-> TRUE, mapped |-> TRUE, mounted |-> TRUE,
                  device |-> dev, partition |-> part, raised |-> TRUE]
    ELSE [linked |-> TRUE, mapped |-> TRUE, mounted |-> TRUE,
          device |-> dev, partition |-> part, raised |-> FALSE]

\* The server-group API with no request made of it
QuotaAtRest ==
    /\ server_groups = 0
    /\ recheck_quota = TRUE
    /\ in_use = 0
    /\ qpc = "idle"
    /\ qreq = "none"
    /\ checks = <<>>
    /\ qout = "none"
    /\ qpre = 0
    /\ qlast = [req |-> "none", out |-> "none"]

\* Mount.__init__(image, mount_dir, partition, device): the session as constructed.
\* The raw devices exist; a device given to the constructor may or may not exist,
\* and may or may not be mounted on mount_dir. A backend session constructed on
\* a device holds the raw device under it.
Init ==
    \E m \in {"None", "loop"}, part \in PartitionArgs, dev \in DeviceArgs,
       there \in BOOLEAN, mnt \in BOOLEAN :
        LET ex == RawDevs \cup (IF there /\ dev # None THEN {dev} ELSE {})
            r == reset_dev(dev, part, ex)
        IN /\ dev = None => (there /\ ~mnt)
           /\ dev \in RawDevs => there
           /\ mnt => there
           /\ ~r.raised
           /\ mode = m
           /\ partition = r.partition
           /\ error = <<>>
           /\ linked = r.linked
           /\ mapped = r.mapped
           /\ mounted = r.mounted
           /\ automapped = FALSE
           /\ device = r.device
           /\ mapped_device = dev
           /\ nodes = ex
           /\ mtab = IF mnt THEN <<dev>> ELSE <<>>
           /\ attached = IF m = "None" THEN {}
                        ELSE {raw \in RawDevs : dev = raw \/ dev \in MapperNodesOf(raw)}
           /\ created = {}
           /\ pc = "idle"
           /\ call = "none"
           /\ status = FALSE
           /\ exc = ""
           /\ cmds = <<>>
           /\ obs = ObsNone
           /\ pre = PreNone
           /\ last = [call |-> "none", out |-> "none"]
           /\ ctor = [partition |-> part, device |-> dev, existed |-> there]
           /\ autodet = FALSE
           /\ direct = FALSE
           /\ mntdev = dev
           /\ ncalls = 0
           /\ nenv = 0
           /\ QuotaAtRest


-----------------------------------------------------------------------------
\* The caller: a public method is entered when none is running

Enter(method, first) ==
    /\ pc = "idle"
    /\ ncalls < MaxCalls
    /\ ncalls' = ncalls + 1
    /\ call' = method
    /\ pc' = first
    /\ status' = FALSE
    /\ exc' = ""
    /\ cmds' = <<>>
    /\ obs' = ObsNone
    /\ pre' = PreNow
    /\ direct' = (direct \/ method \notin {"do_mount", "do_umount"})
    /\ UNCHANGED <<quotavars, mntdev,
                   mode, session, kernel, last, ctor, autodet, nenv>>

\* do_mount(): status = False, then the try block
CallDoMount == Enter("do_mount", "get_dev")

\* do_umount()
CallDoUmount == Enter("do_umount", "unmnt_dev")

\* The stage methods and reset_dev are public too: the caller calls one itself
CallGetDev == Enter("get_dev", "get_dev")

CallMapDev == Enter("map_dev", "map_dev")

CallMntDev == Enter("mnt_dev", "mnt_dev")

CallUnmntDev == Enter("unmnt_dev", "unmnt_dev")

CallUnmapDev == Enter("unmap_dev", "unmap_dev")

CallUngetDev == Enter("unget_dev", "unget_dev")

CallResetDev == Enter("reset_dev", "reset_dev")

\* Mount.reset_dev called on the session as it is: without a device it returns
\* at once, else it sets the three flags and splits a /dev/mapper path
ResetDev ==
    /\ pc = "reset_dev"
    /\ LET r == reset_dev(device, partition, nodes) IN
        IF device = None
        THEN UNCHANGED <<linked, mapped, mounted, device, partition, exc>>
        ELSE /\ linked' = r.linked
             /\ mapped' = r.mapped
             /\ mounted' = r.mounted
             /\ device' = r.device
             /\ partition' = r.partition
             /\ exc' = IF r.raised THEN "ValueError" ELSE exc
    /\ pc' = "return"
    /\ UNCHANGED <<quotavars, direct, mntdev,
                   mode, error, automapped, mapped_device, kernel, call, status,
                   cmds, obs, pre, last, ctor, autodet, ncalls, nenv>>

\* AfterStage with the rollback starting at do_umount's second step
AfterStageSkipsUmount(ok, next) == IF ok THEN next ELSE "unmap_dev"

\* do_mount's `finally: if not status: self.do_umount()` after a stage answered
\* ok (TRUE) or failed (FALSE, or by raising), `next` being the stage after it
AfterStage(ok, next) == IF ok THEN next ELSE "unmnt_dev"

\* Where the thread goes when a forward stage ends: on in do_mount, or back to
\* the caller who called the stage method itself
StageDone(ok, next) == IF call = "do_mount" THEN AfterStage(ok, next) ELSE "return"

-----------------------------------------------------------------------------
\* Mount.get_dev of the base class
get_dev ==
    /\ pc = "get_dev"
    /\ mode = "None"
    /\ device' = None
    /\ linked' = TRUE
    /\ obs' = [obs EXCEPT !.get = "ok"]
    /\ pc' = StageDone(TRUE, "map_dev")
    /\ UNCHANGED <<quotavars, direct, mntdev,
                   mode, partition, error, mapped, mounted, automapped,
                   mapped_device, kernel, call, status, exc, cmds, pre, last,
                   ctor, autodet, ncalls, nenv>>

\* The raw device a backend finds free: the lowest one not in use, None if all are
FreeDev(used) ==
    IF LOOP0 \notin used THEN LOOP0 ELSE IF LOOP1 \notin used THEN LOOP1 ELSE None

\* get_dev of a device backend: Attach() -> (rawDevicePath, ok). It attaches
\* the image to a free raw device, or fails and says why.
backend_get_dev ==
    /\ pc = "get_dev"
    /\ mode # "None"
    /\ \/ \E d \in {FreeDev(attached)} \ {None} :
            /\ device' = d
            /\ linked' = TRUE
            /\ attached' = attached \cup {d}
            /\ obs' = [obs EXCEPT !.get = "ok"]
            /\ pc' = StageDone(TRUE, "map_dev")
            /\ UNCHANGED error
       \/ \E e \in AttachErrs :
            /\ error' = <<"Could not attach image: ", e>>
            /\ obs' = [obs EXCEPT !.get = "fail"]
            /\ pc' = StageDone(FALSE, "map_dev")
            /\ UNCHANGED <<device, linked, attached>>
    /\ UNCHANGED <<quotavars, direct, mntdev,
                   mode, partition, mapped, mounted, automapped, mapped_device,
                   nodes, mtab, created, call, status, exc, cmds, pre, last,
                   ctor, autodet, ncalls, nenv>>

-----------------------------------------------------------------------------
\* MapBranch with the `self.partition and` tests dropped from the elif chain
MapBranchUntested(part, autoFirst, autoSecond) ==
    IF part.t = "int" /\ part.i = -1 THEN "search"
    ELSE IF ~autoFirst THEN "kpartx"
    ELSE IF autoSecond THEN "auto"
    ELSE "whole"

\* The branch map_dev takes, by its if / elif chain. os.path.exists(automapped_path)
\* is called twice, in the first elif (autoFirst) and in the second (autoSecond)
MapBranch(part, autoFirst, autoSecond) ==
    IF part.t = "int" /\ part.i = -1 THEN "search"
    ELSE IF Truthy(part) /\ ~autoFirst THEN "kpartx"
    ELSE IF Truthy(part) /\ autoSecond THEN "auto"
    ELSE "whole"

\* 'partition search unsupported with %s' % self.mode
SearchError(m) == <<"partition search unsupported with ", m>>

\* 'Failed to map partitions: %s' % err, err defaulting to
\* 'partition %s not found' % self.partition
MapError(err, part) ==
    <<"Failed to map partitions: ">> \o
    (IF err = "" THEN <<"partition ">> \o Str(part) \o <<" not found">>
     ELSE <<err>>)

\* what map_dev returns: `return self.mapped`
MapReturn(mappedNow) == mappedNow

\* map_dev stops by a failed assertion, or by os.path.exists(None)
MapRaises(kind) ==
    /\ exc' = kind
    /\ obs' = [obs EXCEPT !.map = "raise", !.mapret = "raised"]
    /\ pc' = StageDone(FALSE, "mnt_dev")
    /\ UNCHANGED <<session, kernel, cmds>>

\* map_dev returns, obs' and the fields being set
MapReturns ==
    /\ pc' = StageDone(MapReturn(mapped'), "mnt_dev")
    /\ UNCHANGED exc

\* map_dev's `self.mapped_device = automapped_path` branch
MapAuto(seen) ==
    /\ mapped_device' = AutomappedPath(device, partition)
    /\ mapped' = TRUE
    /\ automapped' = TRUE
    /\ UNCHANGED <<partition, error, linked, mounted, device, kernel, cmds>>
    /\ obs' = [seen EXCEPT !.mapret = IF MapReturn(mapped') THEN "True" ELSE "False"]
    /\ MapReturns

\* map_dev's else branch: `self.mapped_device = self.device`
MapWhole(seen) ==
    /\ mapped_device' = device
    /\ mapped' = TRUE
    /\ UNCHANGED <<partition, error, linked, mounted, automapped, device,
                   kernel, cmds>>
    /\ obs' = [seen EXCEPT !.mapret = IF MapReturn(mapped') THEN "True" ELSE "False"]
    /\ MapReturns

\* Mount.map_dev from its start: the assertion on the device, the test for the
\* search marker and the first elif's tests. With kpartx needed the command is
\* issued and map_dev waits for it; with a partition whose auto-map node is
\* there, the second elif has yet to look for the node again; the other
\* branches run to the return.
map_dev ==
    /\ pc = "map_dev"
    /\ LET automapped_path == AutomappedPath(device, partition)
           map_path == MapPath(device, partition)
           branch == MapBranch(partition, exists(automapped_path), TRUE)
           seen == [obs EXCEPT !.map = branch, !.autoEx = exists(automapped_path)]
       IN
       IF device = None THEN MapRaises("TypeError")
       ELSE IF ~exists(device) THEN MapRaises("AssertionError")
       ELSE IF branch = "search" THEN
            /\ error' = SearchError(mode)
            /\ UNCHANGED <<partition, linked, mapped, mounted, automapped,
                           device, mapped_device, kernel, cmds>>
            /\ obs' = [seen EXCEPT !.mapret = IF MapReturn(mapped') THEN "True" ELSE "False"]
            /\ MapReturns
       ELSE IF branch = "kpartx" THEN
            IF exists(map_path) THEN MapRaises("AssertionError")
            ELSE /\ cmds' = Append(cmds, [cmd |-> "kpartx -a", arg |-> device])
                 /\ obs' = seen
                 /\ pc' = "kpartx_a"
                 /\ UNCHANGED <<session, kernel, exc>>
       ELSE IF branch = "auto" THEN
            /\ obs' = [obs EXCEPT !.autoEx = TRUE]
            /\ pc' = "map_dev_auto"
            /\ UNCHANGED <<session, kernel, cmds, exc>>
       ELSE MapWhole(seen)
    /\ autodet' = IF obs'.map = "whole" THEN FALSE ELSE autodet
    /\ UNCHANGED <<quotavars, direct, mntdev,
                   mode, call, status, pre, last, ctor, ncalls, nenv>>

\* Mount.map_dev at its second elif, `self.partition and
\* os.path.exists(automapped_path)`: the node is looked for again, and if it
\* is gone in the meantime the else branch maps the whole device
map_dev_auto ==
    /\ pc = "map_dev_auto"
    /\ LET branch == MapBranch(partition, obs.autoEx,
                               exists(AutomappedPath(device, partition)))
           seen == [obs EXCEPT !.map = branch]
       IN IF branch = "auto" THEN MapAuto(seen) ELSE MapWhole(seen)
    /\ autodet' = (obs'.map = "auto")
    /\ UNCHANGED <<quotavars, direct, mntdev,
                   mode, call, status, pre, last, ctor, ncalls, nenv>>

\* utils.trycmd('kpartx', '-a', self.device) acting, while map_dev waits for it:
\* kpartx -a makes a /dev/mapper node for each of the `found` partitions it
\* reads from the device (none for a raw image) that has no node yet, and may
\* print text on stderr either way.
kpartx_a ==
    /\ pc = "kpartx_a"
    /\ \E found \in 0..MaxPart, err \in KpartxErrs :
        LET new == {MapPath(device, PInt(k)) : k \in 1..found} \ nodes IN
        /\ nodes' = nodes \cup new
        /\ created' = created \cup new
        /\ obs' = [obs EXCEPT !.kerr = err]
    /\ pc' = "map_dev_check"
    /\ UNCHANGED <<quotavars, direct, mntdev,
                   mode, session, mtab, attached, call, status, exc, cmds, pre,
                   last, ctor, autodet, ncalls, nenv>>

\* Mount.map_dev once kpartx -a has returned: the node is looked for, whatever
\* kpartx and others made or removed in the meantime
map_dev_check ==
    /\ pc = "map_dev_check"
    /\ LET map_path == MapPath(device, partition) IN
        /\ IF ~exists(map_path)
           THEN /\ error' = MapError(obs.kerr, partition)
                /\ UNCHANGED <<mapped_device, mapped>>
           ELSE /\ mapped_device' = map_path
                /\ mapped' = TRUE
                /\ UNCHANGED error
        /\ obs' = [obs EXCEPT !.nodeEx = exists(map_path),
                     !.mapret = IF MapReturn(mapped') THEN "True" ELSE "False"]
        /\ autodet' = IF exists(map_path) THEN FALSE ELSE autodet
    /\ MapReturns
    /\ UNCHANGED <<quotavars, direct, mntdev,
                   mode, partition, linked, mounted, automapped, device, kernel,
                   call, status, cmds, pre, last, ctor, ncalls, nenv>>

-----------------------------------------------------------------------------
\* 'Failed to mount filesystem: %s' % err
MountError(err) == <<"Failed to mount filesystem: ", err>>

\* Mount.mnt_dev. The mount command prints nothing only if it mounted the device,
\* which needs the device node to exist.
mnt_dev ==
    /\ pc = "mnt_dev"
    /\ \E err \in MountErrs :
        /\ cmds' = Append(cmds, [cmd |-> "mount", arg |-> mapped_device])
        /\ obs' = [obs EXCEPT !.mnt = IF err = "" THEN "ok" ELSE "fail", !.mnterr = err]
        /\ IF err # ""
           THEN /\ error' = MountError(err)
                /\ pc' = StageDone(FALSE, "return")
                /\ UNCHANGED <<mounted, mtab, status, mntdev>>
           ELSE /\ mapped_device \in nodes
                /\ mtab' = Append(mtab, mapped_device)
                /\ mounted' = TRUE
                /\ mntdev' = mapped_device
                /\ status' = (call = "do_mount")
                /\ pc' = StageDone(TRUE, "return")
                /\ UNCHANGED error
    /\ UNCHANGED <<quotavars, direct, mode, partition, linked, mapped, automapped, device,
                   mapped_device, nodes, attached, created, call, exc, pre,
                   last, ctor, autodet, ncalls, nenv>>


-----------------------------------------------------------------------------
\* DoUmountNext with the last two statements of do_umount exchanged
DoUmountNextSwapped(step) ==
    IF step = "unmnt_dev" THEN "unget_dev"
    ELSE IF step = "unget_dev" THEN "unmap_dev"
    ELSE "return"

\* do_umount's statements in the order they are written: what follows `step`
DoUmountNext(step) ==
    IF step = "unmnt_dev" THEN "unmap_dev"
    ELSE IF step = "unmap_dev" THEN "unget_dev"
    ELSE "return"

\* Where the thread goes when a teardown step ends: on in do_umount (called by
\* the caller or by do_mount), or back to the caller who called the step itself
TeardownDone(step) ==
    IF call \in {"do_mount", "do_umount"} THEN DoUmountNext(step) ELSE "return"

\* utils.execute raises ProcessExecutionError when the command exits non-zero
\* (only utils.trycmd tolerates it); the caller's statement is then abandoned
ExecuteRaises ==
    /\ exc' = "ProcessExecutionError"
    /\ pc' = "return"

\* do_umount's `if self.mounted: self.unmnt_dev()`, with Mount.unmnt_dev.
\* umount exits zero only if the device was mounted: it removes that binding.
unmnt_dev ==
    /\ pc = "unmnt_dev"
    /\ IF ~mounted
       THEN /\ pc' = TeardownDone("unmnt_dev")
            /\ UNCHANGED <<mounted, mtab, cmds, exc>>
       ELSE /\ cmds' = Append(cmds, [cmd |-> "umount", arg |-> mapped_device])
            /\ \/ /\ mapped_device \in Range(mtab)
                  /\ mtab' = RemoveLast(mtab, mapped_device)
                  /\ mounted' = FALSE
                  /\ pc' = TeardownDone("unmnt_dev")
                  /\ UNCHANGED exc
               \/ /\ ExecuteRaises
                  /\ UNCHANGED <<mounted, mtab>>
    /\ UNCHANGED <<quotavars, direct, mntdev,
                   mode, partition, error, linked, mapped, automapped, device,
                   mapped_device, nodes, attached, created, call, status, obs,
                   pre, last, ctor, autodet, ncalls, nenv>>

\* whether unmap_dev runs the unmapping tool: `self.partition and not self.automapped`
UnmapRuns(part, auto) == Truthy(part) /\ ~auto

\* do_umount's `if self.mapped: self.unmap_dev()`, with Mount.unmap_dev.
\* kpartx -d removes the device's /dev/mapper nodes; given no device it fails.
unmap_dev ==
    /\ pc = "unmap_dev"
    /\ IF ~mapped
       THEN /\ pc' = TeardownDone("unmap_dev")
            /\ UNCHANGED <<mapped, automapped, nodes, created, cmds, exc>>
       ELSE IF UnmapRuns(partition, automapped)
       THEN /\ cmds' = Append(cmds, [cmd |-> "kpartx -d", arg |-> device])
            /\ \/ /\ device # None
                  /\ nodes' = nodes \ MapperNodesOf(device)
                  /\ created' = created \ MapperNodesOf(device)
                  /\ mapped' = FALSE
                  /\ automapped' = FALSE
                  /\ pc' = TeardownDone("unmap_dev")
                  /\ UNCHANGED exc
               \/ /\ ExecuteRaises
                  /\ UNCHANGED <<mapped, automapped, nodes, created>>
       ELSE /\ mapped' = FALSE
            /\ automapped' = FALSE
            /\ pc' = TeardownDone("unmap_dev")
            /\ UNCHANGED <<nodes, created, cmds, exc>>
    /\ UNCHANGED <<quotavars, direct, mntdev,
                   mode, partition, error, linked, mounted, device,
                   mapped_device, mtab, attached, call, status, obs, pre, last,
                   ctor, ncalls, nenv>>
    /\ autodet' = (autodet /\ mapped')

\* unget_dev with `self.linked = False` left out
unget_dev_keeps_linked ==
    /\ pc = "unget_dev"
    /\ IF ~linked
       THEN UNCHANGED <<attached, cmds>>
       ELSE /\ attached' = IF mode = "None" THEN attached ELSE attached \ {device}
            /\ cmds' = Append(cmds, [cmd |-> "unget_dev", arg |-> device])
    /\ pc' = TeardownDone("unget_dev")
    /\ UNCHANGED <<quotavars, direct, mntdev,
                   mode, session, nodes, mtab, created, call, status, exc,
                   obs, pre, last, ctor, autodet, ncalls, nenv>>

\* do_umount's `if self.linked: self.unget_dev()`, with Mount.unget_dev; a
\* backend's detach releases self.device and never fails loudly.
unget_dev ==
    /\ pc = "unget_dev"
    /\ IF ~linked
       THEN UNCHANGED <<linked, attached, cmds>>
       ELSE /\ linked' = FALSE
            /\ attached' = IF mode = "None" THEN attached ELSE attached \ {device}
            /\ cmds' = Append(cmds, [cmd |-> "unget_dev", arg |-> device])
    /\ pc' = TeardownDone("unget_dev")
    /\ UNCHANGED <<quotavars, direct, mntdev,
                   mode, partition, error, mapped, mounted, automapped, device,
                   mapped_device, nodes, mtab, created, call, status, exc,
                   obs, pre, last, ctor, autodet, ncalls, nenv>>

\* How the running call ends: an exception propagates, do_mount returns status,
\* a forward stage what it answered, do_umount and the other methods None
Outcome ==
    IF exc # "" THEN "raised"
    ELSE IF call = "do_mount" THEN (IF status THEN "True" ELSE "False")
    ELSE IF call = "get_dev" THEN (IF obs.get = "ok" THEN "True" ELSE "False")
    ELSE IF call = "map_dev" THEN obs.mapret
    ELSE IF call = "mnt_dev" THEN (IF obs.mnt = "ok" THEN "True" ELSE "False")
    ELSE "None"

\* The public method returns to (or raises into) its caller
Return ==
    /\ pc = "return"
    /\ last' = [call |-> call, out |-> Outcome]
    /\ pc' = "idle"
    /\ call' = "none"
    /\ status' = FALSE
    /\ exc' = ""
    /\ cmds' = <<>>
    /\ obs' = ObsNone
    /\ pre' = PreNone
    /\ UNCHANGED <<quotavars, direct, mntdev,
                   mode, session, kernel, ctor, autodet, ncalls, nenv>>

\* At any time, between the calls or while one runs or waits for a command, the
\* kernel or another process makes or removes a partition node (of the first
\* loop device: the one a fresh session is given)
EnvChange ==
    /\ nenv < MaxEnv
    /\ \E n \in EnvNodes :
        /\ nodes' = IF n \in nodes THEN nodes \ {n} ELSE nodes \cup {n}
        /\ created' = created \ {n}
    /\ nenv' = nenv + 1
    /\ last' = IF pc = "idle" THEN [call |-> "env", out |-> "none"] ELSE last
    /\ UNCHANGED <<quotavars, direct, mntdev,
                   mode, session, mtab, attached, pc, call, status, exc, cmds,
                   obs, pre, ctor, autodet, ncalls>>

Next ==
    \/ CallDoMount
    \/ CallDoUmount
    \/ CallGetDev
    \/ CallMapDev
    \/ CallMntDev
    \/ CallUnmntDev
    \/ CallUnmapDev
    \/ CallUngetDev
    \/ CallResetDev
    \/ ResetDev
    \/ get_dev
    \/ backend_get_dev
    \/ map_dev
    \/ map_dev_auto
    \/ kpartx_a
    \/ map_dev_check
    \/ mnt_dev
    \/ unmnt_dev
    \/ unmap_dev
    \/ unget_dev
    \/ Return
    \/ EnvChange

Spec == Init /\ [][Next]_vars

TypeOK ==
    /\ pc \in {"idle", "reset_dev", "get_dev", "map_dev", "map_dev_auto", "kpartx_a", "map_dev_check", "mnt_dev", "unmnt_dev",
               "unmap_dev", "unget_dev", "return"}
    /\ linked \in BOOLEAN /\ mapped \in BOOLEAN /\ mounted \in BOOLEAN
    /\ automapped \in BOOLEAN
    /\ Len(mtab) <= MaxCalls + 1


-----------------------------------------------------------------------------
\* The server-group API as test_server_group_quotas.py drives it:
\* ServerGroupController.create and .delete over the quota check
\* (Quotas.check_deltas, or enforce_db_limit under unified limits).

\* A mount session nobody calls: the mount layer while the API is exercised
MountAtRest ==
    /\ mode = "loop"
    /\ partition = PNone
    /\ error = <<>>
    /\ linked = FALSE /\ mapped = FALSE /\ mounted = FALSE /\ automapped = FALSE
    /\ device = None
    /\ mapped_device = None
    /\ nodes = RawDevs
    /\ mtab = <<>>
    /\ attached = {}
    /\ created = {}
    /\ pc = "idle"
    /\ call = "none"
    /\ status = FALSE
    /\ exc = ""
    /\ cmds = <<>>
    /\ obs = ObsNone
    /\ pre = PreNone
    /\ last = [call |-> "none", out |-> "none"]
    /\ ctor = [partition |-> PNone, device |-> None, existed |-> TRUE]
    /\ autodet = FALSE
    /\ direct = FALSE
    /\ mntdev = None
    /\ ncalls = 0
    /\ nenv = 0

\* setUp / _setup_quotas: a limit and the recheck flag are configured, and no
\* server group exists
QuotaInit ==
    /\ MountAtRest
    /\ server_groups \in 0..MaxLimit
    /\ recheck_quota \in BOOLEAN
    /\ in_use = 0
    /\ qpc = "idle"
    /\ qreq = "none"
    /\ checks = <<>>
    /\ qout = "none"
    /\ qpre = 0
    /\ qlast = [req |-> "none", out |-> "none"]

\* OverQuota that lets one group more than the limit through
OverQuotaOffByOne(count, delta, limit) == count + delta > limit + 1

\* the quota check: count plus delta above the limit raises OverQuota
\* (ServerGroupLimitExceeded under unified limits)
OverQuota(count, delta, limit) == count + delta > limit

\* Rechecks that never rechecks
RechecksNever(flag) == FALSE

\* create checks the quota again after it made the group: if recheck_quota
Rechecks(flag) == flag

\* controller.create(req, body) is called
CreateRequest ==
    /\ qpc = "idle"
    /\ qreq' = "create"
    /\ qpc' = "check"
    /\ checks' = <<>>
    /\ qout' = "none"
    /\ qpre' = in_use
    /\ UNCHANGED <<mountvars, server_groups, recheck_quota, in_use, qlast>>

\* create's first quota check, with a delta of one server group; over quota
\* it answers HTTPForbidden
check_deltas ==
    /\ qpc = "check"
    /\ LET over == OverQuota(in_use, 1, server_groups) IN
        /\ checks' = Append(checks, [delta |-> 1, ok |-> ~over])
        /\ IF over
           THEN qout' = "HTTPForbidden" /\ qpc' = "respond"
           ELSE qout' = qout /\ qpc' = "sg_create"
    /\ UNCHANGED <<mountvars, server_groups, recheck_quota, in_use, qreq, qpre,
                   qlast>>

\* create makes the group (InstanceGroup.create), then rechecks or answers
sg_create ==
    /\ qpc = "sg_create"
    /\ in_use' = in_use + 1
    /\ IF Rechecks(recheck_quota)
       THEN qpc' = "recheck" /\ qout' = qout
       ELSE qpc' = "respond" /\ qout' = "ok"
    /\ UNCHANGED <<mountvars, server_groups, recheck_quota, qreq, checks, qpre,
                   qlast>>

\* create's second quota check, with a delta of zero: over quota it destroys
\* the group it made and answers HTTPForbidden
recheck ==
    /\ qpc = "recheck"
    /\ LET over == OverQuota(in_use, 0, server_groups) IN
        /\ checks' = Append(checks, [delta |-> 0, ok |-> ~over])
        /\ in_use' = IF over THEN in_use - 1 ELSE in_use
        /\ qout' = IF over THEN "HTTPForbidden" ELSE "ok"
    /\ qpc' = "respond"
    /\ UNCHANGED <<mountvars, server_groups, recheck_quota, qreq, qpre, qlast>>

\* controller.delete(req, id) of a group that exists: InstanceGroup.destroy
DeleteRequest ==
    /\ qpc = "idle"
    /\ in_use > 0
    /\ qreq' = "delete"
    /\ qpre' = in_use
    /\ in_use' = in_use - 1
    /\ checks' = <<>>
    /\ qout' = "ok"
    /\ qpc' = "respond"
    /\ UNCHANGED <<mountvars, server_groups, recheck_quota, qlast>>

\* the request is answered
Respond ==
    /\ qpc = "respond"
    /\ qlast' = [req |-> qreq, out |-> qout]
    /\ qpc' = "idle"
    /\ qreq' = "none"
    /\ checks' = <<>>
    /\ qout' = "none"
    /\ qpre' = 0
    /\ UNCHANGED <<mountvars, server_groups, recheck_quota, in_use>>

\* A parallel create of the same project and user runs whole, within the
\* quota, while this request is between its first check and its answer
ParallelCreate ==
    /\ qpc \in {"sg_create", "recheck"}
    /\ ~OverQuota(in_use, 1, server_groups)
    /\ in_use' = in_use + 1
    /\ UNCHANGED <<mountvars, server_groups, recheck_quota, qpc, qreq, checks,
                   qout, qpre, qlast>>

\* requests made one after another
QuotaNext ==
    \/ CreateRequest
    \/ check_deltas
    \/ sg_create
    \/ recheck
    \/ DeleteRequest
    \/ Respond

QuotaSpec == QuotaInit /\ [][QuotaNext]_vars

\* requests with parallel creates in between
QuotaRaceNext ==
    \/ CreateRequest
    \/ check_deltas
    \/ sg_create
    \/ recheck
    \/ DeleteRequest
    \/ Respond
    \/ ParallelCreate

QuotaRaceSpec == QuotaInit /\ [][QuotaRaceNext]_vars

-----------------------------------------------------------------------------
\* Vocabulary of the properties

\* the current call has issued the external command c
Issued(c) == \E i \in 1..Len(cmds) : cmds[i].cmd = c

\* the running call is about to return (or raise) to its caller
Returning(method) == pc = "return" /\ call = method

\* map_dev has just returned or raised, and nothing has run since
JustMapped ==
    /\ obs.map # "none" /\ obs.mnt = "none"
    /\ \/ pc \in {"mnt_dev", "unmnt_dev"}
       \/ pc = "return" /\ call = "map_dev"

\* only do_mount() and do_umount() have been called on the session so far
MountCallsOnly == ~direct

\* the running call holds what the session held when it began, less the nodes
\* that others have removed in the meantime
HeldAsBefore ==
    /\ attached = pre.held[1].attached
    /\ created \subseteq pre.held[1].created
    /\ Len(mtab) = pre.held[1].binds

\* a specific partition index is requested: not None, not the search marker -1
Specific(p) == Truthy(p) /\ ~(p.t = "int" /\ p.i = -1)

AllFlagsFalse == ~linked /\ ~mapped /\ ~mounted

-----------------------------------------------------------------------------
\* C1 (atomic mount): whenever do_mount() returns False, whichever stage failed,
\* linked, mapped and mounted are all false.
AtomicMount ==
    (Returning("do_mount") /\ Outcome = "False") => AllFlagsFalse

\* do_mount() returns False after mapping with kpartx, a failed mount and a
\* rollback that ran kpartx -d
AtomicMountWitness ==
    /\ Returning("do_mount") /\ Outcome = "False"
    /\ obs.get = "ok" /\ obs.map = "kpartx" /\ obs.mnt = "fail"
    /\ Issued("kpartx -d")

\* C2 (idempotent teardown), as claimed: a do_umount() that directly follows a
\* do_umount() issues no command and leaves the fields and the resources held as
\* they were; a do_umount() on a session with all flags false does the same.
\* Stated of sessions driven through do_mount() and do_umount().
IdempotentTeardown ==
    (Returning("do_umount") /\ MountCallsOnly) =>
        /\ last.call = "do_umount" =>
              (cmds = <<>> /\ pre.fields = <<Fields>> /\ HeldAsBefore)
        /\ (~pre.fields[1].linked /\ ~pre.fields[1].mapped /\ ~pre.fields[1].mounted) =>
              (cmds = <<>> /\ pre.fields = <<Fields>> /\ HeldAsBefore)

\* C3, as claimed: do_umount() never raises and ends with all flags false.
UmountNeverRaises ==
    Returning("do_umount") => (exc = "" /\ AllFlagsFalse)

\* C4, as claimed: when do_mount() returns False, the call holds no raw device,
\* /dev/mapper node or mount binding that it did not hold when it began.
NoLeakOnFailedMount ==
    (Returning("do_mount") /\ Outcome = "False") =>
        /\ attached \subseteq pre.held[1].attached
        /\ created \subseteq pre.held[1].created
        /\ Len(mtab) <= pre.held[1].binds

\* C5, as claimed: a do_mount() of a backend session that does not succeed
\* returns False with an error text; no exception leaves do_mount().
MountFailuresReturned ==
    (Returning("do_mount") /\ mode # "None" /\ ~status) =>
        (exc = "" /\ Outcome = "False" /\ error # <<>>)

\* C6, as claimed: after kpartx -a, map_dev() answers by the existence of
\* /dev/mapper/<base>p<N> alone: false with 'Failed to map partitions: ...' if
\* the node is absent, true with mapped_device set to the node if it is there
\* (the node's existence being what map_dev saw once kpartx -a had returned).
MapJudgedByExistence ==
    (JustMapped /\ Issued("kpartx -a")) =>
        /\ ~obs.nodeEx =>
              (obs.mapret = "False" /\ error = MapError(obs.kerr, partition))
        /\ obs.nodeEx =>
              (obs.mapret = "True" /\ mapped
               /\ mapped_device = MapPath(device, partition))

\* When map_dev() has run for a specific partition N whose node /dev/<base>p<N>
\* already existed (map_dev found it at its first test), automapped and mapped
\* are true, mapped_device is that node and kpartx -a was not invoked.
AutoMapDetected ==
    (JustMapped /\ obs.map # "raise" /\ Specific(partition) /\ obs.autoEx) =>
        (automapped /\ mapped /\ obs.mapret = "True"
         /\ mapped_device = AutomappedPath(device, partition)
         /\ ~Issued("kpartx -a"))

\* The unmapping step of a teardown issues no command while the mapping in
\* force is one map_dev found auto-mapped.
AutoMapTeardown == (autodet /\ pc = "unmap_dev") => cmds' = cmds

\* C7, as claimed: when map_dev() has run for a specific partition N whose node
\* /dev/<base>p<N> already existed, automapped and mapped are true,
\* mapped_device is that node and kpartx -a was not invoked; and the teardown of
\* a mapping found that way never invokes kpartx -d.
AutoMapDetection == []AutoMapDetected /\ [][AutoMapTeardown]_vars

\* C8, as claimed: when the mount command prints on stderr, do_mount() returns
\* False, error is 'Failed to mount filesystem: ' with that text, and mounted is
\* false.
MountFailureReported ==
    (Returning("do_mount") /\ obs.mnt = "fail") =>
        (Outcome = "False" /\ error = MountError(obs.mnterr) /\ ~mounted)

\* C9 (whole-device pass-through): a do_mount() with no partition selector whose
\* attach gave a device and whose mount command printed no error returns True:
\* the device was mounted as mapped_device = device, with no kpartx run and all
\* three flags true.
WholeDevicePassThrough ==
    (Returning("do_mount") /\ obs.get = "ok" /\ device # None
       /\ ~Truthy(partition) /\ obs.mnt # "fail") =>
        (Outcome = "True" /\ obs.mnt = "ok" /\ mapped_device = device
         /\ ~Issued("kpartx -a") /\ ~Issued("kpartx -d")
         /\ linked /\ mapped /\ mounted)

\* do_mount() on a session with no partition selector returns True
WholeDevicePassThroughWitness ==
    /\ Returning("do_mount") /\ Outcome = "True"
    /\ obs.get = "ok" /\ device # None /\ ~Truthy(partition)
    /\ Issued("mount")

\* C10 (reattach inference): a session constructed on an existing
\* /dev/mapper/<base>p<N> has linked and mapped true, device /dev/<base>,
\* partition N, and mapped_device still the node it was given.
ReattachInference ==
    (ncalls = 0 /\ ctor.existed /\ ctor.device \in MapperNodes) =>
        \E raw \in RawDevs, k \in Partitions :
            /\ ctor.device = MapPath(raw, PInt(k))
            /\ linked /\ mapped
            /\ device = raw
            /\ partition = PStr(Digits(k))
            /\ mapped_device = ctor.device

\* a session just constructed on the existing /dev/mapper/loop0p1
ReattachInferenceWitness ==
    /\ ncalls = 0 /\ ctor.existed
    /\ ctor.device = MapPath(LOOP0, PInt(1))
    /\ device = LOOP0 /\ Str(partition) = <<"1">>

\* the raw devices that have /dev/mapper nodes the session created and has not
\* removed: one partition-mapping entry for each
MappingsCreated == {raw \in RawDevs : created \cap MapperNodesOf(raw) # {}}

\* C11, as claimed: at any time a session holds at most one attached raw device,
\* at most one partition mapping it created and at most one mount binding,
\* do_mount() being called again on a mounted session included; over the
\* sequences of do_mount() and do_umount() calls.
OneOfEachResource ==
    MountCallsOnly =>
        /\ Cardinality(attached) <= 1
        /\ Cardinality(MappingsCreated) <= 1
        /\ Len(mtab) <= 1

\* C14 (stage flags form a prefix): in every state that a sequence of do_mount()
\* and do_umount() calls reaches, inside the calls as well as between them,
\* mounted implies mapped and mapped implies linked.
FlagsFormPrefix == MountCallsOnly => ((mounted => mapped) /\ (mapped => linked))

\* a do_umount() stopped by a failing kpartx -d: unmounted, still mapped and linked
FlagsFormPrefixWitness ==
    /\ MountCallsOnly
    /\ Returning("do_umount") /\ exc = "ProcessExecutionError"
    /\ Issued("umount") /\ Issued("kpartx -d")
    /\ ~mounted /\ mapped /\ linked

\* the place of a teardown step in do_umount's order; 0 for a forward command
TeardownRank(c) ==
    IF c = "umount" THEN 1
    ELSE IF c = "kpartx -d" THEN 2
    ELSE IF c = "unget_dev" THEN 3
    ELSE 0

\* C15 (teardown in reverse stage order): of the teardown steps a call has
\* taken, direct do_umount() or rollback of do_mount(), the umount command comes
\* before kpartx -d, which comes before the release of the raw device
\* (unget_dev); no step follows a step of an earlier stage.
ReverseOrderTeardown ==
    \A i, j \in 1..Len(cmds) :
        (i < j /\ TeardownRank(cmds[i].cmd) > 0 /\ TeardownRank(cmds[j].cmd) > 0)
            => TeardownRank(cmds[i].cmd) < TeardownRank(cmds[j].cmd)

\* the rollback of a do_mount() took all three teardown steps
ReverseOrderTeardownWitness ==
    /\ Returning("do_mount")
    /\ Issued("umount") /\ Issued("kpartx -d") /\ Issued("unget_dev")

\* map_dev of the current call recorded a mapping failure: it set error
\* ('partition search unsupported', 'Failed to map partitions') or raised
MapFailed ==
    \/ obs.map = "raise"
    \/ obs.map = "search"
    \/ obs.map = "kpartx" /\ pc \notin {"kpartx_a", "map_dev_check"} /\ ~obs.nodeEx

\* C16, as claimed: do_mount() runs get_dev, map_dev, mnt_dev in this order and
\* attempts no stage after one that failed: the mount command is not invoked in
\* a call whose map_dev recorded a mapping failure; and a do_mount() in which a
\* stage failed returns after the whole teardown, with all flags false.
StagesStopAtFirstFailure ==
    call = "do_mount" =>
        /\ obs.map # "none" => obs.get = "ok"
        /\ obs.mnt # "none" => (obs.map # "none" /\ ~MapFailed)
        /\ MapFailed => ~Issued("mount")
        /\ (pc = "return" /\ exc = ""
              /\ (obs.get = "fail" \/ MapFailed \/ obs.mnt = "fail")) => AllFlagsFalse

\* C17, as claimed: when map_dev() finds the partition selector to be -1, it
\* fails at once: it answers False with error 'partition search unsupported
\* ...', runs no mapping tool and leaves mapped false, whatever nodes exist and
\* whatever the flags were before.
PartitionSearchUnsupported ==
    (JustMapped /\ obs.map = "search") =>
        /\ partition = PInt(-1)
        /\ obs.mapret = "False"
        /\ error = SearchError(mode)
        /\ ~Issued("kpartx -a")
        /\ ~mapped

\* The unmapping step of a teardown issues kpartx -d if and only if mapped is
\* true and automapped is false, and leaves mapped and automapped false.
UnmapStep ==
    (pc = "unmap_dev" /\ pc' # pc) =>
        /\ (cmds' # cmds) <=> (mapped /\ ~automapped)
        /\ cmds' # cmds => cmds' = Append(cmds, [cmd |-> "kpartx -d", arg |-> device])
        /\ ~mapped' /\ ~automapped'

\* C18, as claimed: during do_umount(), kpartx -d on the raw device is invoked
\* exactly when mapped is true and automapped is false, and after that step
\* mapped and automapped are both false.
UnmapWhenMappedNotAuto == [][UnmapStep]_vars

\* the error texts that the failing stages of the current call have recorded
StageErrors ==
    (IF obs.get = "fail" THEN {<<"Could not attach image: ", e>> : e \in AttachErrs}
     ELSE {})
    \cup (IF obs.map = "search" THEN {SearchError(mode)} ELSE {})
    \cup (IF obs.map = "kpartx" /\ ~obs.nodeEx
          THEN {MapError(obs.kerr, partition)} ELSE {})
    \cup (IF obs.mnt = "fail" THEN {MountError(obs.mnterr)} ELSE {})

\* C19, as claimed: error is cleared when a stage is attempted and set only when
\* that stage fails, so the error read when do_mount() returns is empty or the
\* text of a failure of this call, never that of an earlier do_mount().
ErrorOfThisCall ==
    (Returning("do_mount") /\ MountCallsOnly) => (error = <<>> \/ error \in StageErrors)

\* C20, as claimed: whenever a teardown issues the umount command, its argument
\* is the device the session's last successful mount command was given, or the
\* device hint for a session reattached from one and not mounted since, whatever
\* calls and changes of device nodes came before.
UmountTargetsMounted ==
    MountCallsOnly =>
        \A i \in 1..Len(cmds) :
            cmds[i].cmd = "umount" => cmds[i].arg = mntdev

\* the create request being answered
CreateAnswered == qpc = "respond" /\ qreq = "create"

\* C12 (quota never exceeded, released by delete): for create and delete
\* requests made one after another, the number of server groups never exceeds
\* the limit; a create made when the count equals the limit, a limit of 0
\* included, is answered HTTPForbidden and creates nothing; a delete lowers the
\* count by one, and the create that follows it succeeds.
QuotaNeverExceeded ==
    /\ in_use <= server_groups
    /\ (CreateAnswered /\ qpre = server_groups) =>
          (qout = "HTTPForbidden" /\ in_use = qpre)
    /\ (qpc = "respond" /\ qreq = "delete") => in_use = qpre - 1
    /\ (CreateAnswered /\ qlast.req = "delete") =>
          (qout = "ok" /\ in_use = qpre + 1)

\* with a limit of one: a create was refused at the limit, the group was
\* deleted, and the create after the delete is answered ok
QuotaNeverExceededWitness ==
    /\ CreateAnswered /\ qlast.req = "delete"
    /\ server_groups = 1 /\ in_use = 1 /\ qout = "ok"

\* C13 (quota recheck closes the create race): with recheck_quota enabled a
\* create that passed its first quota check and failed its second, a parallel
\* create having filled the quota, is answered HTTPForbidden after exactly two
\* checks and leaves the count within the limit; with recheck_quota disabled a
\* create makes exactly one check, with a delta of one server group.
RecheckClosesRace ==
    CreateAnswered =>
        /\ recheck_quota =>
              /\ checks[1].ok => Len(checks) = 2
              /\ (Len(checks) >= 2 /\ checks[1].ok /\ ~checks[2].ok) =>
                    (qout = "HTTPForbidden" /\ Len(checks) = 2)
              /\ in_use <= server_groups
        /\ ~recheck_quota =>
              (Len(checks) = 1 /\ checks[1].delta = 1)

\* a create passed its first check, a parallel create filled the quota, the
\* recheck failed and the request is answered HTTPForbidden
RecheckClosesRaceWitness ==
    /\ CreateAnswered /\ recheck_quota
    /\ Len(checks) = 2 /\ checks[1].ok /\ ~checks[2].ok
    /\ qout = "HTTPForbidden" /\ in_use = server_groups

=============================================================================
